---- MODULE Spec2Model ----
(***************************************************************************)
(* A model of the Enhanced File Organizer v2.0 engine                      *)
(* (file_organizer/core/organizer.py and config_manager.py): the rule       *)
(* matcher, the scanner, the concurrent move executor and the undo journal. *)
(*                                                                         *)
(* A path is a record [dir, name]: dir is the sequence of directory         *)
(* segments from the filesystem root of the model, name is the pair         *)
(* [stem, ext] that pathlib's .stem and .suffix give for the basename.      *)
(* The filesystem fs is a function from the paths of the existing files to  *)
(* [data, size, mtime]; dirs is the set of existing directories.            *)
(***************************************************************************)
EXTENDS Integers, Sequences, FiniteSets, Bags, TLC

VARIABLES
    fs,            \* existing files: path -> [data, size, mtime]
    dirs,          \* existing directories (sequences of segments)
    cwd,           \* the process working directory
    profile,       \* ConfigManager.current_profile
    phase,         \* position of the coordinator: idle, scanning, hashing, planned,
                   \* executing, done, undoing
    run,           \* number of organize_directory calls started
    dry_run,       \* FileOrganizer.dry_run
    enable_undo,   \* organize_directory's enable_undo argument
    enable_duplicates, \* organize_directory's enable_duplicates argument
    cancel_requested,  \* FileOrganizer.cancel_requested
    all_files,     \* _scan_directory: the walked paths still to be examined
    file_infos,    \* the FileInfo list built by _scan_directory
    tasks,         \* one record per submitted process_file job
    stats,         \* FileOrganizer.stats
    events,        \* bag of the entries given to Logger.log since the run began
    journal,       \* content of undo_info.json, or NoJournal
    undo,          \* state of undo_last_operation
    faults,        \* number of environment failures in the current operation
    hist,          \* history: the tree before the run, what each run placed,
                   \* the order of the moves and of the restores
    mfile,         \* the file given to get_rule_for_file when it is called alone
    mresult,       \* the index that call returned
    hash_map,      \* _detect_duplicates: content hash -> the files that have it
    future_to_file,    \* _detect_duplicates: the hash jobs not yet collected,
                       \* each queued or hashed (result ready)
    profiles,      \* ConfigManager.profiles: name -> ConfigProfile
    config_files,  \* the JSON files written by the ConfigManager: path -> text
    returned,      \* what the last call of move_file, export_profile or
                   \* import_profile returned
    watch          \* EnhancedCLI._handle_watch: position of the loop, last_check
                   \* and current_files (path -> st_mtime)

vars == <<fs, dirs, cwd, profile, phase, run, dry_run, enable_undo,
          enable_duplicates, cancel_requested, all_files, file_infos, tasks,
          stats, events, journal, undo, faults, hist, mfile, mresult,
          hash_map, future_to_file, profiles, config_files, returned, watch>>

(***************************************************************************)
(* Bounds of the model.                                                    *)
(***************************************************************************)
\* number of files in the initial tree
MaxFiles == 2
\* number of environment failures (stat, unlink, move errors) in one operation
MaxFaults == 1
\* number of organize_directory calls in a behaviour
MaxRuns == 2
\* length of the rule lists given to get_rule_for_file when it is called alone
MaxRules == 2

(***************************************************************************)
(* Optional values.  None is -1 for the optional integers (sizes and       *)
(* dates are never negative) and <<>> for the optional target_folder.      *)
(***************************************************************************)
None == -1

\* str.lower() on the extensions of the model
Lower(s) ==
    CASE s = ".JPG" -> ".jpg"
      [] s = ".Jpg" -> ".jpg"
      [] s = ".TXT" -> ".txt"
      [] OTHER -> s

\* datetime.fromisoformat on the date strings of the model: an ISO date is the
\* midnight that starts the day, days are numbered, a time stamp is 10 * day +
\* tenth of the day
FromIso(d) ==
    CASE d = "2024-01-31" -> 10
      [] d = "2024-02-01" -> 20
      [] d = "2024-02-02" -> 30
      [] OTHER -> 0

\* strftime("%Y-%m") on the time stamps of the model
YearMonth(t) == IF t < 20 THEN "2024-01" ELSE "2024-02"

\* str(counter) for the rename suffix
ToStr(n) ==
    CASE n = 1 -> "1" [] n = 2 -> "2" [] n = 3 -> "3" [] n = 4 -> "4"
      [] n = 5 -> "5" [] n = 6 -> "6" [] n = 7 -> "7" [] n = 8 -> "8"
      [] OTHER -> "9"

\* str.startswith('.') on the directory names and stems of the model
StartsWithDot(s) == s \in {".h", ".cache"}

Rule(name, exts) ==
    [name |-> name, extensions |-> exts, size_min |-> None, size_max |-> None,
     date_min |-> "", date_max |-> "", target_folder |-> <<>>, enabled |-> TRUE]

(***************************************************************************)
(* ConfigManager.get_rule_for_file: the index of the rule returned, 0 for  *)
(* None.                                                                   *)
(***************************************************************************)
\* a matcher that turns away a file whose size equals size_max
RuleAcceptsBelowMax(rule, file_ext, file_size, file_mtime) ==
    /\ rule.enabled
    /\ ~(rule.extensions # {} /\ file_ext \notin {Lower(e) : e \in rule.extensions})
    /\ ~(rule.size_min # None /\ file_size < rule.size_min)
    /\ ~(rule.size_max # None /\ file_size >= rule.size_max)
    /\ ~(rule.date_min # "" /\ file_mtime < FromIso(rule.date_min))
    /\ ~(rule.date_max # "" /\ file_mtime > FromIso(rule.date_max))

\* a matcher for which a rule without extensions accepts no file
RuleAcceptsListedOnly(rule, file_ext, file_size, file_mtime) ==
    /\ rule.enabled
    /\ file_ext \in {Lower(e) : e \in rule.extensions}
    /\ ~(rule.size_min # None /\ file_size < rule.size_min)
    /\ ~(rule.size_max # None /\ file_size > rule.size_max)
    /\ ~(rule.date_min # "" /\ file_mtime < FromIso(rule.date_min))
    /\ ~(rule.date_max # "" /\ file_mtime > FromIso(rule.date_max))

RuleAccepts(rule, file_ext, file_size, file_mtime) ==
    /\ rule.enabled
    /\ ~(rule.extensions # {} /\ file_ext \notin {Lower(e) : e \in rule.extensions})
    /\ ~(rule.size_min # None /\ file_size < rule.size_min)
    /\ ~(rule.size_max # None /\ file_size > rule.size_max)
    /\ ~(rule.date_min # "" /\ file_mtime < FromIso(rule.date_min))
    /\ ~(rule.date_max # "" /\ file_mtime > FromIso(rule.date_max))

\* datetime.fromisoformat raises ValueError on a string that is not an ISO date
FromIsoRaises(d) == d \notin {"2024-01-31", "2024-02-01", "2024-02-02"}

\* the loop body of get_rule_for_file reaches a fromisoformat call that raises
RuleRaises(rule, file_ext, file_size, file_mtime) ==
    /\ rule.enabled
    /\ ~(rule.extensions # {} /\ file_ext \notin {Lower(e) : e \in rule.extensions})
    /\ ~(rule.size_min # None /\ file_size < rule.size_min)
    /\ ~(rule.size_max # None /\ file_size > rule.size_max)
    /\ \/ rule.date_min # "" /\ FromIsoRaises(rule.date_min)
       \/ /\ ~(rule.date_min # "" /\ file_mtime < FromIso(rule.date_min))
          /\ rule.date_max # "" /\ FromIsoRaises(rule.date_max)

FirstIndex(S) ==
    IF S = {} THEN 0 ELSE CHOOSE i \in S : \A j \in S : i <= j

get_rule_for_file(rules, suffix, size, mtime) ==
    LET file_ext == Lower(suffix)
        hit == FirstIndex({i \in 1..Len(rules) :
                   RuleAccepts(rules[i], file_ext, size, mtime)})
        others == FirstIndex({i \in 1..Len(rules) :
                   rules[i].name = "Others" /\ rules[i].enabled})
    IN IF hit # 0 THEN hit ELSE others

\* get_rule_for_file raises instead of returning: the first rule at which the
\* loop stops is one whose date cannot be parsed
get_rule_for_file_raises(rules, suffix, size, mtime) ==
    LET file_ext == Lower(suffix)
        stop == FirstIndex({i \in 1..Len(rules) :
                    \/ RuleRaises(rules[i], file_ext, size, mtime)
                    \/ RuleAccepts(rules[i], file_ext, size, mtime)})
    IN stop # 0 /\ RuleRaises(rules[stop], file_ext, size, mtime)

\* size bands whose lower limits belong to the band below
SizeCategoryInclusive(size) ==
    IF size <= 1024 * 1024 THEN "Small"
    ELSE IF size <= 100 * 1024 * 1024 THEN "Medium"
    ELSE IF size <= 1024 * 1024 * 1024 THEN "Large"
    ELSE "XLarge"

\* FileOrganizer._get_size_category
_get_size_category(size) ==
    IF size < 1024 * 1024 THEN "Small"
    ELSE IF size < 100 * 1024 * 1024 THEN "Medium"
    ELSE IF size < 1024 * 1024 * 1024 THEN "Large"
    ELSE "XLarge"

(***************************************************************************)
(* Paths.                                                                  *)
(***************************************************************************)
\* the directory given to organize_directory (an absolute path)
TargetDir == <<"T">>
\* another directory, from which the program may have been started
OtherDir == <<"W">>

Name(stem, ext) == [stem |-> stem, ext |-> ext]
Path(dir, name) == [dir |-> dir, name |-> name]

\* every ancestor directory of a directory, itself included
Ancestors(dir) == {SubSeq(dir, 1, k) : k \in 1..Len(dir)}

\* Path.exists() for a file path
Exists(p) == p \in DOMAIN fs

\* a function without one argument, and with one more
Without(f, p) == [q \in DOMAIN f \ {p} |-> f[q]]
With(f, p, v) == [q \in DOMAIN f \cup {p} |-> IF q = p THEN v ELSE f[q]]

\* a sequence listing a finite set (the order in which os.walk lists entries)
RECURSIVE SetToSeq(_)
SetToSeq(S) ==
    IF S = {} THEN <<>>
    ELSE LET first == CHOOSE x \in S : \A y \in S : Len(x.dir) <= Len(y.dir)
         IN <<first>> \o SetToSeq(S \ {first})

(***************************************************************************)
(* The inputs: the files a tree may hold and the profiles.                 *)
(***************************************************************************)
File(dir, stem, ext, data, size, mtime) ==
    [path |-> Path(dir, Name(stem, ext)), data |-> data, size |-> size, mtime |-> mtime]

CandidateFiles ==
    { File(<<"T">>, "a", ".jpg", "c1", 10, 15),
      File(<<"T", "sub">>, "a", ".jpg", "c2", 1024 * 1024, 25),
      File(<<"T">>, "b", ".txt", "c1", 10, 15),
      File(<<"T", "Images">>, "a", ".jpg", "c4", 10, 15),
      File(<<"T", "Images">>, "a_1", ".jpg", "c5", 10, 15),
      File(<<"T">>, "x", ".py", "c6", 5, 15),
      File(<<"T">>, ".h", ".jpg", "c7", 5, 15),
      File(<<"T", "sub">>, "t", ".tmp", "c8", 5, 15) }

Images == Rule("Images", {".jpg", ".png"})
Pics == [Images EXCEPT !.target_folder = <<"Pics">>]
Others == Rule("Others", {})

BaseProfile ==
    [rules |-> <<Images, Others>>, create_date_folders |-> FALSE,
     create_size_folders |-> FALSE, handle_duplicates |-> "rename",
     exclude_patterns |-> {"*.tmp"}, include_hidden_files |-> FALSE,
     max_file_size |-> None]

Profiles ==
    { [BaseProfile EXCEPT !.handle_duplicates = d] : d \in {"rename", "skip", "overwrite"} }
    \cup { [BaseProfile EXCEPT !.rules = <<Images>>],
           [BaseProfile EXCEPT !.rules = <<Pics, Others>>],
           [BaseProfile EXCEPT !.create_date_folders = TRUE, !.create_size_folders = TRUE],
           [BaseProfile EXCEPT !.include_hidden_files = TRUE, !.exclude_patterns = {},
                               !.max_file_size = 100] }

\* a member of the enum OrganizeBy, as a ConfigProfile object holds it
OrganizeBy(value) == [enum |-> "OrganizeBy", value |-> value]

\* a ConfigProfile object: the options p under a name, with its two time stamps
ConfigProfile(name, organize_by, p, created_date, last_modified) ==
    [name |-> name, organize_by |-> organize_by, rules |-> p.rules,
     create_date_folders |-> p.create_date_folders,
     create_size_folders |-> p.create_size_folders,
     handle_duplicates |-> p.handle_duplicates,
     exclude_patterns |-> p.exclude_patterns,
     include_hidden_files |-> p.include_hidden_files,
     max_file_size |-> p.max_file_size,
     created_date |-> created_date, last_modified |-> last_modified]

\* ConfigManager.profiles when it holds one profile, under the name "default"
DefaultOnly(p) ==
    [n \in {"default"} |-> ConfigProfile("default", OrganizeBy("extension"), p, "t0", "t0")]

\* a plain string, where an enum member could stand
Plain(value) == [enum |-> "", value |-> value]

OrganizeByValues == {"extension", "size", "date", "mixed"}

\* dataclasses.asdict: the fields by name; an enum member stays what it is
asdict(p) == [k \in DOMAIN p |-> p[k]]

\* json.dump(d, f): an enum member is not serializable, and the text written
\* so far stops before the value of organize_by
json_dump(d) ==
    IF d.organize_by.enum # ""
    THEN [complete |-> FALSE, value |-> [name |-> d.name]]
    ELSE [complete |-> TRUE, value |-> [d EXCEPT !.organize_by = @.value]]

\* json.load(f) of a complete text: the dictionary, organize_by a string
json_load(text) == [text.value EXCEPT !.organize_by = Plain(@)]

ConfigPath(name) == "configs/" \o name \o ".json"
ExportPath == "test_profile_export.json"
ProfileNames == {"default", "imported_test"}

\* save_profile: the file it writes
SavedText(p) == json_dump([asdict(p) EXCEPT !.organize_by = Plain(p.organize_by.value)])

\* the files of the configuration directory when ps are the profiles held
ConfigFiles(ps) ==
    [f \in {ConfigPath(n) : n \in DOMAIN ps} |->
        SavedText(ps[CHOOSE n \in DOMAIN ps : ConfigPath(n) = f])]

Trees == {S \in SUBSET CandidateFiles : Cardinality(S) <= MaxFiles}

TreeFs(S) ==
    [p \in {f.path : f \in S} |->
        LET f == CHOOSE f \in S : f.path = p
        IN [data |-> f.data, size |-> f.size, mtime |-> f.mtime]]

NoJournal == [written |-> FALSE, operations |-> <<>>]
NoUndo == [ops |-> <<>>, success_count |-> 0, error_count |-> 0, result |-> "none"]
\* the empty dictionary of _detect_duplicates
NoHashes == [h \in {} |-> <<>>]
\* no call has returned yet
NoJobs == << >>

NoReturn == [call |-> "none"]
\* no watch loop is running
NoWatch == [pc |-> "off", last_check |-> << >>, current_files |-> << >>]
NoStats ==
    [total_files |-> 0, files_moved |-> 0, files_skipped |-> 0, errors |-> 0,
     total_size |-> 0, duplicates_found |-> 0, categories |-> EmptyBag]

(***************************************************************************)
(* The coordinator: organize_directory.                                    *)
(***************************************************************************)
NoPath == Path(<<>>, Name("", ""))

Event(action, source, destination, error) ==
    [action |-> action, source |-> source, destination |-> destination, error |-> error]

Log(e) == events (+) SetToBag({e})

\* fnmatch.fnmatch on the patterns of the model
Fnmatch(name, pattern) ==
    CASE pattern = "*.tmp" -> name.ext = ".tmp"
      [] pattern = "*.temp" -> name.ext = ".temp"
      [] OTHER -> name.stem \o name.ext = pattern

\* FileOrganizer._should_exclude_file: the basename and the whole path end alike
_should_exclude_file(p, exclude_patterns) ==
    \E pattern \in exclude_patterns : Fnmatch(p.name, pattern)

\* the directories os.walk descends into: the pruning of dirs[:]
Descends(dir, prof) ==
    \A k \in (Len(TargetDir) + 1)..Len(dir) :
        /\ prof.include_hidden_files \/ ~StartsWithDot(dir[k])
        /\ dir[k] \notin {prof.rules[r].name : r \in 1..Len(prof.rules)}

\* the files the walk of _scan_directory collects in all_files
Walked(prof) ==
    {p \in DOMAIN fs :
        /\ Len(p.dir) >= Len(TargetDir)
        /\ SubSeq(p.dir, 1, Len(TargetDir)) = TargetDir
        /\ Descends(p.dir, prof)
        /\ ~(p.dir = TargetDir /\ p.name.ext \in {".py", ".json", ".log"})
        /\ ~(~prof.include_hidden_files /\ StartsWithDot(p.name.stem))
        /\ ~_should_exclude_file(p, prof.exclude_patterns)}

\* organize_directory up to the walk of _scan_directory; a caller that calls
\* again repeats the arguments of its first call, and the watch loop calls
\* with dry_run = False and the defaults of the other arguments
StartOrganize ==
    /\ phase \in {"idle", "done"}
    /\ run < MaxRuns \/ watch.pc = "call"
    /\ watch.pc \in {"off", "call"}
    /\ watch' = IF watch.pc = "call" THEN [watch EXCEPT !.pc = "organizing"] ELSE watch
    /\ IF watch.pc = "call"
       THEN dry_run' = FALSE /\ enable_undo' = FALSE /\ enable_duplicates' = FALSE
       ELSE IF run = 0
       THEN \E d \in BOOLEAN, u \in BOOLEAN, dup \in BOOLEAN :
               /\ dry_run' = d
               /\ enable_undo' = u
               /\ enable_duplicates' = dup
       ELSE UNCHANGED <<dry_run, enable_undo, enable_duplicates>>
    /\ run' = IF run < MaxRuns THEN run + 1 ELSE run
    /\ cancel_requested' = FALSE
    /\ stats' = NoStats
    /\ all_files' = SetToSeq(Walked(profile))
    /\ file_infos' = <<>>
    /\ tasks' = <<>>
    /\ phase' = "scanning"
    /\ hist' = [hist EXCEPT !.before = fs, !.scan_errors = 0,
                            !.moves = <<>>, !.restored = <<>>]
    /\ undo' = NoUndo
    /\ events' = EmptyBag
    /\ faults' = 0
    /\ UNCHANGED <<fs, dirs, cwd, profile, journal, mfile, mresult,
                   hash_map, future_to_file, profiles, config_files, returned>>

\* the target folder computed for a matched file (lines 241-254)
TargetFolder(rule, prof, size, mtime) ==
    LET base == IF rule.target_folder # <<>> THEN rule.target_folder ELSE <<rule.name>>
        dated == IF prof.create_date_folders THEN base \o <<YearMonth(mtime)>> ELSE base
    IN IF prof.create_size_folders THEN dated \o <<_get_size_category(size)>> ELSE dated

\* one iteration of the loop over all_files whose stat succeeds; an exception
\* of get_rule_for_file that is no OSError leaves the loop (lines 270-271)
ScanEntry ==
    /\ phase = "scanning"
    /\ all_files # <<>>
    /\ ~cancel_requested
    /\ LET file_path == Head(all_files)
           st == fs[file_path]
           r == get_rule_for_file(profile.rules, file_path.name.ext, st.size, st.mtime)
           oversize == profile.max_file_size # None /\ profile.max_file_size # 0
                       /\ st.size > profile.max_file_size
           raises == get_rule_for_file_raises(profile.rules, file_path.name.ext,
                                              st.size, st.mtime)
       IN IF ~oversize /\ raises
          THEN all_files' = <<>> /\ UNCHANGED <<file_infos, stats>>
          ELSE IF oversize \/ r = 0
          THEN all_files' = Tail(all_files) /\ UNCHANGED <<file_infos, stats>>
          ELSE LET rule == profile.rules[r]
                   info == [path |-> file_path, size |-> st.size,
                            modified_time |-> st.mtime,
                            extension |-> Lower(file_path.name.ext),
                            category |-> rule.name,
                            target_folder |-> TargetFolder(rule, profile, st.size, st.mtime),
                            rule |-> r]
               IN /\ all_files' = Tail(all_files)
                  /\ file_infos' = Append(file_infos, info)
                  /\ stats' = [stats EXCEPT !.total_files = @ + 1,
                                            !.total_size = @ + st.size,
                                            !.categories = @ (+) SetToBag({rule.name})]
    /\ UNCHANGED <<fs, dirs, cwd, profile, phase, run, dry_run, enable_undo,
                   enable_duplicates, cancel_requested, tasks, events, journal,
                   undo, faults, hist, mfile, mresult,
                   hash_map, future_to_file, profiles, config_files, returned, watch>>

\* one iteration whose stat raises OSError (unreadable entry, broken link)
ScanEntryError ==
    /\ phase = "scanning"
    /\ all_files # <<>>
    /\ ~cancel_requested
    /\ faults < MaxFaults
    /\ faults' = faults + 1
    /\ events' = Log(Event("ERROR", Head(all_files), NoPath, "stat"))
    /\ stats' = [stats EXCEPT !.errors = @ + 1]
    /\ hist' = [hist EXCEPT !.scan_errors = @ + 1]
    /\ all_files' = Tail(all_files)
    /\ UNCHANGED <<fs, dirs, cwd, profile, phase, run, dry_run, enable_undo,
                   enable_duplicates, cancel_requested, file_infos, tasks,
                   journal, undo, mfile, mresult,
                   hash_map, future_to_file, profiles, config_files, returned, watch>>

\* the end of _scan_directory, and organize_directory up to the submission of
\* the hash jobs (lines 138-149, 316-318) or, without duplicate detection, up to
\* the confirmation
ScanFinish ==
    /\ phase = "scanning"
    /\ all_files = <<>> \/ cancel_requested
    /\ all_files' = <<>>
    /\ IF file_infos = <<>>
       THEN phase' = "done" /\ future_to_file' = NoJobs
       ELSE IF enable_duplicates
       THEN phase' = "hashing"
            /\ future_to_file' = [i \in 1..Len(file_infos) |-> "queued"]
       ELSE phase' = "planned" /\ future_to_file' = NoJobs
    /\ UNCHANGED <<fs, dirs, cwd, profile, run, dry_run, enable_undo,
                   enable_duplicates, cancel_requested, file_infos, tasks, stats,
                   events, journal, undo, faults, hist, mfile, mresult,
                   hash_map, profiles, config_files, returned, watch>>

\* min(32, (os.cpu_count() or 1) + 4) on a one-processor machine: the size of
\* the hash pool
max_threads == 5

\* hashlib.sha256(...).hexdigest() on the contents of the model
Sha256(data) == "sha256:" \o data

\* a bucketing that counts the first file of a bucket as a duplicate too
BucketedCountsFirst(file_hash, i) ==
    /\ hash_map' = IF file_hash \in DOMAIN hash_map
                   THEN [hash_map EXCEPT ![file_hash] = Append(@, i)]
                   ELSE With(hash_map, file_hash, <<i>>)
    /\ stats' = [stats EXCEPT !.duplicates_found = @ + 1]

\* lines 324-329: the file joins the bucket of its hash, and counts as a
\* duplicate when the bucket exists already
Bucketed(file_hash, i) ==
    IF file_hash \in DOMAIN hash_map
    THEN /\ hash_map' = [hash_map EXCEPT ![file_hash] = Append(@, i)]
         /\ stats' = [stats EXCEPT !.duplicates_found = @ + 1]
    ELSE /\ hash_map' = With(hash_map, file_hash, <<i>>)
         /\ stats' = stats

\* the jobs of future_to_file other than job i
Collected(i) == [j \in DOMAIN future_to_file \ {i} |-> future_to_file[j]]

\* the hash jobs a worker thread is running or has run
Hashing == {i \in DOMAIN future_to_file : future_to_file[i] # "queued"}

\* a worker thread begins the hash job of file i and reads the file
\* (calculate_hash, lines 304-310); nothing tests the cancellation flag
HashBegin(i) ==
    /\ phase = "hashing"
    /\ i \in DOMAIN future_to_file /\ future_to_file[i] = "queued"
    /\ Cardinality(Hashing) < max_threads
    /\ Exists(file_infos[i].path)
    /\ future_to_file' = [future_to_file EXCEPT ![i] = "hashed"]
    /\ UNCHANGED <<fs, dirs, cwd, profile, phase, run, dry_run, enable_undo,
                   enable_duplicates, cancel_requested, all_files, file_infos,
                   tasks, stats, events, journal, undo, faults, hist, mfile, mresult,
                   hash_map, profiles, config_files, returned, watch>>

\* as_completed yields the hash job of file i, which has read the file
HashEntry(i) ==
    /\ phase = "hashing"
    /\ i \in DOMAIN future_to_file /\ future_to_file[i] = "hashed"
    /\ Bucketed(Sha256(fs[file_infos[i].path].data), i)
    /\ future_to_file' = Collected(i)
    /\ UNCHANGED <<fs, dirs, cwd, profile, phase, run, dry_run, enable_undo,
                   enable_duplicates, cancel_requested, all_files, file_infos,
                   tasks, events, journal, undo, faults, hist, mfile, mresult,
                   profiles, config_files, returned, watch>>

\* the hash job of file i begins and cannot read the file: calculate_hash
\* returns None (lines 311-312), and when as_completed yields the job
\* `if file_hash:` is false: nothing is logged or counted (line 324)
HashEntryError(i) ==
    /\ phase = "hashing"
    /\ i \in DOMAIN future_to_file /\ future_to_file[i] = "queued"
    /\ Cardinality(Hashing) < max_threads
    /\ faults < MaxFaults
    /\ faults' = faults + 1
    /\ future_to_file' = Collected(i)
    /\ UNCHANGED <<fs, dirs, cwd, profile, phase, run, dry_run, enable_undo,
                   enable_duplicates, cancel_requested, all_files, file_infos,
                   tasks, stats, events, journal, undo, hist, mfile, mresult,
                   hash_map, profiles, config_files, returned, watch>>

\* every hash job is done: _detect_duplicates returns, hash_map goes with it
HashFinish ==
    /\ phase = "hashing"
    /\ future_to_file = NoJobs
    /\ hash_map' = NoHashes
    /\ phase' = "planned"
    /\ UNCHANGED <<fs, dirs, cwd, profile, run, dry_run, enable_undo,
                   enable_duplicates, cancel_requested, all_files, file_infos,
                   tasks, stats, events, journal, undo, faults, hist, mfile, mresult,
                   future_to_file, profiles, config_files, returned, watch>>

\* lines 155-158: a preview, or a declined confirmation, returns the statistics
PreviewReturn ==
    /\ phase = "planned"
    /\ phase' = "done"
    /\ UNCHANGED <<fs, dirs, cwd, profile, run, dry_run, enable_undo,
                   enable_duplicates, cancel_requested, all_files, file_infos,
                   tasks, stats, events, journal, undo, faults, hist, mfile, mresult,
                   hash_map, future_to_file, profiles, config_files, returned, watch>>

(***************************************************************************)
(* The move executor: _execute_organization, process_file, _move_file.     *)
(***************************************************************************)
\* min(self.max_threads, 8): the size of the move pool
MoveWorkers == 8

\* a coordinator that forgets the preview test before executing
ProceedsAlways == TRUE

\* line 156: the run goes on to _execute_organization (the confirmation given)
Proceeds == ~dry_run

\* _create_undo_info: one entry per planned file, written before any move
UndoOperations(infos) ==
    [i \in 1..Len(infos) |->
        [source |-> infos[i].path,
         target |-> Path(infos[i].target_folder, infos[i].path.name)]]

\* a journal writer that keeps the entries of the journal already there
JournalAppended(infos) ==
    [written |-> TRUE, operations |-> journal.operations \o UndoOperations(infos)]

\* open(undo_file, 'w') and json.dump: the file at the fixed path is replaced
_create_undo_info(infos) == [written |-> TRUE, operations |-> UndoOperations(infos)]

\* the planned destination of a file: target_path / target_folder / name
PlannedTarget(info) == Path(TargetDir \o info.target_folder, info.path.name)

NewTask == [pc |-> "queued", target |-> NoPath, counter |-> 0, outcome |-> "pending"]

\* lines 369-404: the journal, the folders, and the submission of every job
ExecuteStart ==
    /\ phase = "planned"
    /\ Proceeds
    /\ journal' = IF enable_undo THEN _create_undo_info(file_infos) ELSE journal
    /\ dirs' = IF dry_run THEN dirs
               ELSE dirs \cup UNION {Ancestors(TargetDir \o file_infos[i].target_folder) :
                                        i \in 1..Len(file_infos)}
    /\ tasks' = [i \in 1..Len(file_infos) |-> NewTask]
    /\ phase' = "executing"
    /\ UNCHANGED <<fs, cwd, profile, run, dry_run, enable_undo, enable_duplicates,
                   cancel_requested, all_files, file_infos, stats, events, undo,
                   faults, hist, mfile, mresult,
                   hash_map, future_to_file, profiles, config_files, returned, watch>>

\* folder_path.mkdir raises (line 378, destination not writable): the journal
\* is written already, the exception leaves _execute_organization and the
\* handler of organize_directory logs it against the target directory
\* (lines 170-172) without counting it
ExecuteMkdirError ==
    /\ phase = "planned"
    /\ Proceeds
    /\ faults < MaxFaults
    /\ faults' = faults + 1
    /\ journal' = IF enable_undo THEN _create_undo_info(file_infos) ELSE journal
    /\ events' = Log(Event("ERROR", [NoPath EXCEPT !.dir = TargetDir], NoPath, "mkdir"))
    /\ phase' = "done"
    /\ UNCHANGED <<fs, dirs, cwd, profile, run, dry_run, enable_undo, enable_duplicates,
                   cancel_requested, all_files, file_infos, tasks, stats, undo,
                   hist, mfile, mresult,
                   hash_map, future_to_file, profiles, config_files, returned, watch>>

Running == {i \in 1..Len(tasks) : tasks[i].pc \notin {"queued", "done"}}

\* the candidate name of the rename loop (line 443)
RenameCandidate(target, base_name, counter) ==
    [target EXCEPT !.name.stem = base_name \o "_" \o ToStr(counter)]

\* the counter still has a name in the model
CounterInRange(n) == n <= 8

\* the longest stem the file system accepts in a file name
NameMax == 5

\* stat() of a name beyond the file system's limit raises OSError, which
\* Path.exists() passes on (line 442)
NameTooLong(p) == Len(p.name.stem) > NameMax

\* a skip branch that counts the file as moved
SkippedCountsMoved(i, target) ==
    /\ tasks' = [tasks EXCEPT ![i].pc = "done", ![i].target = target,
                              ![i].outcome = "skipped"]
    /\ events' = Log(Event("SKIPPED", file_infos[i].path, target, ""))
    /\ stats' = [stats EXCEPT !.files_moved = @ + 1]

\* the skip branch: the event, the counter, and the job is over (lines 430-434)
Skipped(i, target) ==
    /\ tasks' = [tasks EXCEPT ![i].pc = "done", ![i].target = target,
                              ![i].outcome = "skipped"]
    /\ events' = Log(Event("SKIPPED", file_infos[i].path, target, ""))
    /\ stats' = [stats EXCEPT !.files_skipped = @ + 1]

\* a cancelled job that is counted as skipped
UnprocessedCountsSkipped(i) ==
    /\ tasks' = [tasks EXCEPT ![i].pc = "done", ![i].outcome = "unprocessed"]
    /\ stats' = [stats EXCEPT !.files_skipped = @ + 1]
    /\ UNCHANGED events

\* process_file finds the flag set and returns False (lines 390-391)
Unprocessed(i) ==
    /\ tasks' = [tasks EXCEPT ![i].pc = "done", ![i].outcome = "unprocessed"]
    /\ UNCHANGED <<stats, events>>

\* process_file's cancellation test, then _move_file up to its first
\* existence test on the planned destination (lines 390-444)
TaskBegin(i) ==
    /\ phase = "executing"
    /\ tasks[i].pc = "queued"
    /\ Cardinality(Running) < MoveWorkers
    /\ LET info == file_infos[i]
           target == PlannedTarget(info)
       IN IF cancel_requested
          THEN Unprocessed(i)
          ELSE IF ~Exists(target)
          THEN /\ tasks' = [tasks EXCEPT ![i].pc = "move", ![i].target = target]
               /\ UNCHANGED <<stats, events>>
          ELSE IF profile.handle_duplicates = "skip"
          THEN Skipped(i, target)
          ELSE IF profile.handle_duplicates = "overwrite"
          THEN /\ tasks' = [tasks EXCEPT ![i].pc = IF dry_run THEN "move" ELSE "unlink",
                                         ![i].target = target]
               /\ UNCHANGED <<stats, events>>
          ELSE /\ tasks' = [tasks EXCEPT ![i].pc = "rename",
                                         ![i].target = RenameCandidate(target, target.name.stem, 1),
                                         ![i].counter = 2]
               /\ UNCHANGED <<stats, events>>
    /\ UNCHANGED <<fs, dirs, cwd, profile, phase, run, dry_run, enable_undo,
                   enable_duplicates, cancel_requested, all_files, file_infos,
                   journal, undo, faults, hist, mfile, mresult,
                   hash_map, future_to_file, profiles, config_files, returned, watch>>

\* a failure that is not caught per file: the jobs not yet begun are dropped
FailedAborts(i, error) ==
    /\ tasks' = [j \in 1..Len(tasks) |->
                    IF j = i THEN [tasks[j] EXCEPT !.pc = "done", !.outcome = "failed"]
                    ELSE IF tasks[j].pc = "queued"
                    THEN [tasks[j] EXCEPT !.pc = "done", !.outcome = "unprocessed"]
                    ELSE tasks[j]]
    /\ events' = Log(Event("ERROR", file_infos[i].path, NoPath, error))
    /\ stats' = [stats EXCEPT !.errors = @ + 1]

\* a failure that is logged but never counted
FailedUncounted(i, error) ==
    /\ tasks' = [tasks EXCEPT ![i].pc = "done", ![i].outcome = "failed"]
    /\ events' = Log(Event("ERROR", file_infos[i].path, NoPath, error))
    /\ stats' = stats

\* the job ends as failed: the error is logged and counted once
\* (lines 395-400 and 471-477)
Failed(i, error) ==
    /\ tasks' = [tasks EXCEPT ![i].pc = "done", ![i].outcome = "failed"]
    /\ events' = Log(Event("ERROR", file_infos[i].path, NoPath, error))
    /\ stats' = [stats EXCEPT !.errors = @ + 1]

\* one existence test of the rename loop (lines 442-444)
TaskRename(i) ==
    /\ phase = "executing"
    /\ tasks[i].pc = "rename"
    /\ IF NameTooLong(tasks[i].target)
       THEN Failed(i, "File name too long")
       ELSE IF Exists(tasks[i].target)
       THEN /\ CounterInRange(tasks[i].counter)
            /\ tasks' = [tasks EXCEPT
                   ![i].target = RenameCandidate(PlannedTarget(file_infos[i]),
                                     file_infos[i].path.name.stem, tasks[i].counter),
                   ![i].counter = @ + 1]
            /\ UNCHANGED <<stats, events>>
       ELSE /\ tasks' = [tasks EXCEPT ![i].pc = "move"]
            /\ UNCHANGED <<stats, events>>
    /\ UNCHANGED <<fs, dirs, cwd, profile, phase, run, dry_run, enable_undo,
                   enable_duplicates, cancel_requested, all_files, file_infos,
                   journal, undo, faults, hist, mfile, mresult,
                   hash_map, future_to_file, profiles, config_files, returned, watch>>

\* the overwrite branch: target_file_path.unlink() (line 437)
TaskUnlink(i) ==
    /\ phase = "executing"
    /\ tasks[i].pc = "unlink"
    /\ IF Exists(tasks[i].target)
       THEN /\ fs' = Without(fs, tasks[i].target)
            /\ tasks' = [tasks EXCEPT ![i].pc = "move"]
            /\ UNCHANGED <<stats, events>>
       ELSE /\ Failed(i, "unlink: no such file")
            /\ UNCHANGED fs
    /\ UNCHANGED <<dirs, cwd, profile, phase, run, dry_run, enable_undo,
                   enable_duplicates, cancel_requested, all_files, file_infos,
                   journal, undo, faults, hist, mfile, mresult,
                   hash_map, future_to_file, profiles, config_files, returned, watch>>

\* shutil.move(src, dst) on files: dst is replaced if it exists
Moved(f, src, dst) == With(Without(f, src), dst, f[src])

\* shutil.move and the bookkeeping of a successful move (lines 446-469)
TaskMove(i) ==
    /\ phase = "executing"
    /\ tasks[i].pc = "move"
    /\ LET src == file_infos[i].path
           dst == tasks[i].target
       IN IF dry_run
          THEN /\ fs' = fs
               /\ tasks' = [tasks EXCEPT ![i].pc = "done", ![i].outcome = "moved"]
               /\ events' = Log(Event("MOVED", src, dst, ""))
               /\ stats' = [stats EXCEPT !.files_moved = @ + 1]
          ELSE IF Exists(src)
          THEN /\ fs' = Moved(fs, src, dst)
               /\ tasks' = [tasks EXCEPT ![i].pc = "done", ![i].outcome = "moved"]
               /\ events' = Log(Event("MOVED", src, dst, ""))
               /\ stats' = [stats EXCEPT !.files_moved = @ + 1]
          ELSE /\ Failed(i, "move: no such file")
               /\ UNCHANGED fs
    /\ hist' = IF enable_undo /\ ~dry_run /\ Exists(file_infos[i].path)
               THEN [hist EXCEPT !.moves = Append(@, i)] ELSE hist
    /\ UNCHANGED <<dirs, cwd, profile, phase, run, dry_run, enable_undo,
                   enable_duplicates, cancel_requested, all_files, file_infos,
                   journal, undo, faults, mfile, mresult,
                   hash_map, future_to_file, profiles, config_files, returned, watch>>

\* unlink or shutil.move raises (permission, cross-device, disk full)
TaskFault(i) ==
    /\ phase = "executing"
    /\ tasks[i].pc \in {"unlink", "move"}
    /\ ~dry_run
    /\ faults < MaxFaults
    /\ faults' = faults + 1
    /\ Failed(i, tasks[i].pc)
    /\ UNCHANGED <<fs, dirs, cwd, profile, phase, run, dry_run, enable_undo,
                   enable_duplicates, cancel_requested, all_files, file_infos,
                   journal, undo, hist, mfile, mresult,
                   hash_map, future_to_file, profiles, config_files, returned, watch>>

\* as_completed has yielded every future: _show_results and the return
ExecuteFinish ==
    /\ phase = "executing"
    /\ \A i \in 1..Len(tasks) : tasks[i].pc = "done"
    /\ phase' = "done"
    /\ hist' = [hist EXCEPT !.placed =
                   IF run = 1
                   THEN {tasks[i].target : i \in {j \in 1..Len(tasks) : tasks[j].outcome = "moved"}}
                   ELSE @]
    /\ UNCHANGED <<fs, dirs, cwd, profile, run, dry_run, enable_undo,
                   enable_duplicates, cancel_requested, all_files, file_infos,
                   tasks, stats, events, journal, undo, faults, mfile, mresult,
                   hash_map, future_to_file, profiles, config_files, returned, watch>>

\* cancel_operation, called from another thread during a run
CancelOperation ==
    /\ phase \in {"scanning", "hashing", "planned", "executing"}
    /\ ~cancel_requested
    /\ cancel_requested' = TRUE
    /\ UNCHANGED <<fs, dirs, cwd, profile, phase, run, dry_run, enable_undo,
                   enable_duplicates, all_files, file_infos, tasks, stats, events,
                   journal, undo, faults, hist, mfile, mresult,
                   hash_map, future_to_file, profiles, config_files, returned, watch>>

(***************************************************************************)
(* The undo journal: undo_last_operation.                                  *)
(***************************************************************************)
\* a path string of the journal, read by a process whose directory is cwd
Resolve(p) ==
    IF p.dir # <<>> /\ p.dir[1] \in {TargetDir[1], OtherDir[1]} THEN p
    ELSE [p EXCEPT !.dir = cwd \o @]

\* lines 535-556: the journal is read
UndoStart ==
    /\ phase \in {"idle", "done"}
    /\ undo.result = "none"
    /\ IF ~journal.written
       THEN undo' = [NoUndo EXCEPT !.result = "no undo information"] /\ phase' = phase
       ELSE IF journal.operations = <<>>
       THEN undo' = [NoUndo EXCEPT !.result = "no operations"] /\ phase' = phase
       ELSE undo' = [NoUndo EXCEPT !.ops = journal.operations] /\ phase' = "undoing"
    /\ faults' = 0
    /\ hist' = IF journal.written /\ journal.operations # <<>>
               THEN [hist EXCEPT !.placed = {}] ELSE hist
    /\ UNCHANGED <<fs, dirs, cwd, profile, run, dry_run, enable_undo,
                   enable_duplicates, cancel_requested, all_files, file_infos,
                   tasks, stats, events, journal, mfile, mresult,
                   hash_map, future_to_file, profiles, config_files, returned, watch>>

\* one iteration of the loop over the operations (lines 558-574)
UndoEntry ==
    /\ phase = "undoing"
    /\ undo.ops # <<>>
    /\ LET op == Head(undo.ops)
           target_path == Resolve(op.target)
           source_path == Resolve(op.source)
       IN IF Exists(target_path)
          THEN /\ dirs' = dirs \cup Ancestors(source_path.dir)
               /\ fs' = Moved(fs, target_path, source_path)
               /\ undo' = [undo EXCEPT !.ops = Tail(@), !.success_count = @ + 1]
               /\ hist' = [hist EXCEPT !.restored =
                              Append(@, Len(journal.operations) - Len(undo.ops) + 1)]
          ELSE /\ undo' = [undo EXCEPT !.ops = Tail(@)]
               /\ UNCHANGED <<fs, dirs, hist>>
    /\ UNCHANGED <<cwd, profile, phase, run, dry_run, enable_undo,
                   enable_duplicates, cancel_requested, all_files, file_infos,
                   tasks, stats, events, journal, faults, mfile, mresult,
                   hash_map, future_to_file, profiles, config_files, returned, watch>>

\* an iteration whose mkdir or shutil.move raises
UndoEntryError ==
    /\ phase = "undoing"
    /\ undo.ops # <<>>
    /\ Exists(Resolve(Head(undo.ops).target))
    /\ faults < MaxFaults
    /\ faults' = faults + 1
    /\ undo' = [undo EXCEPT !.ops = Tail(@), !.error_count = @ + 1]
    /\ UNCHANGED <<fs, dirs, cwd, profile, phase, run, dry_run, enable_undo,
                   enable_duplicates, cancel_requested, all_files, file_infos,
                   tasks, stats, events, journal, hist, mfile, mresult,
                   hash_map, future_to_file, profiles, config_files, returned, watch>>

\* lines 576-585: the journal is removed when no error was counted
UndoFinish ==
    /\ phase = "undoing"
    /\ undo.ops = <<>>
    /\ journal' = IF undo.error_count = 0 THEN NoJournal ELSE journal
    /\ undo' = [undo EXCEPT !.result = IF undo.error_count = 0 THEN "ok" ELSE "errors"]
    /\ phase' = "idle"
    /\ hist' = [hist EXCEPT !.moves = <<>>, !.restored = <<>>]
    /\ UNCHANGED <<fs, dirs, cwd, profile, run, dry_run, enable_undo,
                   enable_duplicates, cancel_requested, all_files, file_infos,
                   tasks, stats, events, faults, mfile, mresult,
                   hash_map, future_to_file, profiles, config_files, returned, watch>>

\* the state after FileOrganizer.__init__, in a tree S, started from directory c
EngineIdle(S, c) ==
    /\ fs = TreeFs(S)
    /\ dirs = {TargetDir, OtherDir} \cup UNION {Ancestors(f.path.dir) : f \in S}
    /\ cwd = c
    /\ phase = "idle"
    /\ run = 0
    /\ dry_run = FALSE
    /\ enable_undo = FALSE
    /\ enable_duplicates = FALSE
    /\ cancel_requested = FALSE
    /\ all_files = <<>>
    /\ file_infos = <<>>
    /\ tasks = <<>>
    /\ stats = NoStats
    /\ events = EmptyBag
    /\ journal = NoJournal
    /\ undo = NoUndo
    /\ faults = 0
    /\ hist = [before |-> TreeFs(S), placed |-> {}, scan_errors |-> 0,
               moves |-> <<>>, restored |-> <<>>]
    /\ hash_map = NoHashes
    /\ future_to_file = NoJobs
    /\ returned = NoReturn

NoMatchFile == [suffix |-> "", size |-> 0, mtime |-> 0]

Init ==
    /\ \E S \in Trees, c \in {TargetDir, OtherDir} : EngineIdle(S, c)
    /\ profile \in Profiles
    /\ profiles = DefaultOnly(profile)
    /\ config_files = ConfigFiles(profiles)
    /\ mfile = NoMatchFile
    /\ mresult = None
    /\ watch = NoWatch

Next ==
    \/ StartOrganize
    \/ ScanEntry
    \/ ScanEntryError
    \/ ScanFinish
    \/ \E i \in 1..Len(file_infos) : HashBegin(i)
    \/ \E i \in 1..Len(file_infos) : HashEntry(i)
    \/ \E i \in 1..Len(file_infos) : HashEntryError(i)
    \/ HashFinish
    \/ PreviewReturn
    \/ ExecuteStart
    \/ \E i \in 1..Len(tasks) : TaskBegin(i)
    \/ \E i \in 1..Len(tasks) : TaskRename(i)
    \/ \E i \in 1..Len(tasks) : TaskUnlink(i)
    \/ \E i \in 1..Len(tasks) : TaskMove(i)
    \/ \E i \in 1..Len(tasks) : TaskFault(i)
    \/ ExecuteFinish
    \/ CancelOperation
    \/ UndoStart
    \/ UndoEntry
    \/ UndoEntryError
    \/ UndoFinish

Spec == Init /\ [][Next]_vars

(***************************************************************************)
(* The rule matcher on its own: get_rule_for_file applied to one file and  *)
(* one rule list drawn from MatchRules.                                    *)
(***************************************************************************)
Constrained(exts, enabled) ==
    { [Rule("A", exts) EXCEPT !.size_min = 10, !.enabled = enabled],
      [Rule("A", exts) EXCEPT !.size_max = 10, !.enabled = enabled],
      [Rule("A", exts) EXCEPT !.date_min = "2024-02-01", !.enabled = enabled],
      [Rule("A", exts) EXCEPT !.date_max = "2024-02-01", !.enabled = enabled],
      [Rule("Others", exts) EXCEPT !.enabled = enabled],
      [Rule("A", exts) EXCEPT !.enabled = enabled] }

MatchRules == UNION {Constrained(exts, en) : exts \in {{}, {".JPG"}}, en \in BOOLEAN}

MatchRuleLists == UNION {[1..n -> MatchRules] : n \in 1..MaxRules}

MatchFiles ==
    [suffix : {".Jpg", ".txt"}, size : {9, 10, 11}, mtime : {19, 20, 21}]

InitMatch ==
    /\ EngineIdle({}, TargetDir)
    /\ \E rules \in MatchRuleLists : profile = [BaseProfile EXCEPT !.rules = rules]
    /\ profiles = DefaultOnly(profile)
    /\ config_files = ConfigFiles(profiles)
    /\ mfile \in MatchFiles
    /\ mresult = None
    /\ watch = NoWatch

\* ConfigManager.get_rule_for_file(file_path, file_stats) is called
MatchFile ==
    /\ mresult = None
    /\ mresult' = get_rule_for_file(profile.rules, mfile.suffix, mfile.size, mfile.mtime)
    /\ UNCHANGED <<fs, dirs, cwd, profile, phase, run, dry_run, enable_undo,
                   enable_duplicates, cancel_requested, all_files, file_infos,
                   tasks, stats, events, journal, undo, faults, hist, mfile,
                   hash_map, future_to_file, profiles, config_files, returned, watch>>

NextMatch == MatchFile

SpecMatch == InitMatch /\ [][NextMatch]_vars

(***************************************************************************)
(* The collision resolvers of the repository side by side: the engine's    *)
(* _move_file, handle_file_conflict of organizer_main.py and                *)
(* generate_unique_filename of organizer.py, each moving the file T/a.jpg   *)
(* into a folder Images that may already hold a.jpg and numbered names.     *)
(***************************************************************************)
\* the numbered names a_1 .. a_MaxTaken may exist in the destination folder
MaxTaken == 2

Incoming == File(<<"T">>, "a", ".jpg", "c1", 10, 15)
Destination == Path(<<"T", "Images">>, Name("a", ".jpg"))

\* the candidate name of organizer.py: f"{base} ({counter}){suffix}"
ParenCandidate(target, base, counter) ==
    [target EXCEPT !.name.stem = base \o " (" \o ToStr(counter) \o ")"]

\* the files the destination folder may hold before the move
Taken ==
    {File(Destination.dir, "a", ".jpg", "c4", 10, 15),
     File(Destination.dir, "a (1)", ".jpg", "c9", 10, 15)}
    \cup {File(Destination.dir, "a_" \o ToStr(n), ".jpg", "c5", 10, 15) : n \in 1..MaxTaken}

ResolveTrees == {{Incoming} \cup X : X \in SUBSET Taken}

\* the three policies with the default rules, and the overwrite policy with a
\* rule whose target_folder differs from its name
ResolveProfiles ==
    { [BaseProfile EXCEPT !.handle_duplicates = d] : d \in {"rename", "skip", "overwrite"} }
    \cup { [BaseProfile EXCEPT !.rules = <<Pics, Others>>,
                               !.handle_duplicates = "overwrite"] }

\* organizer_main.py, handle_file_conflict: the loop from counter on
RECURSIVE FirstFreeUnderscore(_, _, _)
FirstFreeUnderscore(f, destination, counter) ==
    LET new_destination == RenameCandidate(destination, destination.name.stem, counter)
    IN IF new_destination \notin DOMAIN f \/ ~CounterInRange(counter) THEN new_destination
       ELSE FirstFreeUnderscore(f, destination, counter + 1)

handle_file_conflict(f, destination) ==
    IF destination \notin DOMAIN f THEN destination
    ELSE FirstFreeUnderscore(f, destination, 1)

\* organizer.py, generate_unique_filename: the loop from counter on
RECURSIVE FirstFreeParen(_, _, _)
FirstFreeParen(f, dest_path, counter) ==
    LET new_path == ParenCandidate(dest_path, dest_path.name.stem, counter)
    IN IF new_path \notin DOMAIN f \/ ~CounterInRange(counter) THEN new_path
       ELSE FirstFreeParen(f, dest_path, counter + 1)

\* NoPath stands for the None that signals a skip
generate_unique_filename(f, dest_path, strategy) ==
    IF dest_path \notin DOMAIN f THEN dest_path
    ELSE IF strategy = "skip" THEN NoPath
    ELSE IF strategy = "overwrite" THEN dest_path
    ELSE FirstFreeParen(f, dest_path, 1)

Untouched ==
    UNCHANGED <<cwd, profile, phase, run, dry_run, enable_undo,
                enable_duplicates, cancel_requested, all_files, file_infos,
                tasks, stats, events, journal, undo, faults, hist, mfile, mresult,
                hash_map, future_to_file, profiles, config_files, watch>>

\* organizer_main.py, FileOrganizer.move_file(source_path, target_dir, dry_run)
MainMoveFile ==
    /\ phase = "idle" /\ run = 0 /\ returned = NoReturn
    /\ Exists(Incoming.path)
    /\ \E dry \in BOOLEAN :
          LET final_destination == handle_file_conflict(fs, Destination)
          IN /\ fs' = IF dry THEN fs ELSE Moved(fs, Incoming.path, final_destination)
             /\ dirs' = dirs
             /\ returned' = [call |-> "organizer_main.move_file", dry_run |-> dry,
                             strategy |-> "rename", success |-> TRUE,
                             destination |-> final_destination]
    /\ Untouched

\* organizer.py, FileOrganizer.move_file(source, dest_dir, dry_run)
StandaloneMoveFile ==
    /\ phase = "idle" /\ run = 0 /\ returned = NoReturn
    /\ Exists(Incoming.path)
    /\ \E dry \in BOOLEAN, strategy \in {"rename", "skip", "overwrite"} :
          LET unique_dest == generate_unique_filename(fs, Destination, strategy)
          IN /\ dirs' = IF dry THEN dirs ELSE dirs \cup Ancestors(Destination.dir)
             /\ fs' = IF dry \/ unique_dest = NoPath THEN fs
                      ELSE Moved(fs, Incoming.path, unique_dest)
             /\ returned' = [call |-> "organizer.move_file", dry_run |-> dry,
                             strategy |-> strategy, success |-> unique_dest # NoPath,
                             destination |-> unique_dest]
    /\ Untouched

InitResolve ==
    /\ \E S \in ResolveTrees : EngineIdle(S, TargetDir)
    /\ profile \in ResolveProfiles
    /\ profiles = DefaultOnly(profile)
    /\ config_files = ConfigFiles(profiles)
    /\ mfile = NoMatchFile
    /\ mresult = None
    /\ watch = NoWatch

NextResolve ==
    \/ MainMoveFile
    \/ StandaloneMoveFile
    \/ StartOrganize
    \/ ScanEntry
    \/ ScanFinish
    \/ \E i \in 1..Len(file_infos) : HashBegin(i)
    \/ \E i \in 1..Len(file_infos) : HashEntry(i)
    \/ HashFinish
    \/ ExecuteStart
    \/ \E i \in 1..Len(tasks) : TaskBegin(i)
    \/ \E i \in 1..Len(tasks) : TaskRename(i)
    \/ \E i \in 1..Len(tasks) : TaskUnlink(i)
    \/ \E i \in 1..Len(tasks) : TaskMove(i)
    \/ ExecuteFinish

SpecResolve == InitResolve /\ [][NextResolve]_vars

(***************************************************************************)
(* The profile store of the ConfigManager: save_profile, export_profile    *)
(* and import_profile.  A JSON text is [complete, value]: complete is      *)
(* FALSE for the text json.dump leaves behind when it raises half way.     *)
(***************************************************************************)
\* export_profile(profile_name, export_path)
ExportProfile(profile_name, export_path) ==
    /\ IF profile_name \notin DOMAIN profiles
       THEN /\ config_files' = config_files
            /\ returned' = [call |-> "export_profile", name |-> profile_name,
                            path |-> export_path, value |-> FALSE]
       ELSE LET text == json_dump(asdict(profiles[profile_name]))
            IN /\ config_files' = With(config_files, export_path, text)
               /\ returned' = [call |-> "export_profile", name |-> profile_name,
                               path |-> export_path, value |-> text.complete]
    /\ UNCHANGED <<fs, dirs, cwd, profile, phase, run, dry_run, enable_undo,
                   enable_duplicates, cancel_requested, all_files, file_infos,
                   tasks, stats, events, journal, undo, faults, hist, mfile, mresult,
                   hash_map, future_to_file, profiles, watch>>

\* import_profile(import_path, new_name); new_name "" stands for None
ImportProfile(import_path, new_name) ==
    /\ IF import_path \notin DOMAIN config_files \/ ~config_files[import_path].complete
       THEN /\ UNCHANGED <<profiles, config_files>>
            /\ returned' = [call |-> "import_profile", name |-> new_name,
                            path |-> import_path, value |-> FALSE]
       ELSE LET profile_dict == json_load(config_files[import_path])
                name == IF new_name # "" THEN new_name ELSE profile_dict.name
                imported == [profile_dict EXCEPT
                                !.organize_by = OrganizeBy(@.value),
                                !.name = name, !.last_modified = "now"]
            IN /\ profiles' = With(profiles, name, imported)
               /\ config_files' = With(config_files, ConfigPath(name), SavedText(imported))
               /\ returned' = [call |-> "import_profile", name |-> new_name,
                               path |-> import_path, value |-> TRUE]
    /\ UNCHANGED <<fs, dirs, cwd, profile, phase, run, dry_run, enable_undo,
                   enable_duplicates, cancel_requested, all_files, file_infos,
                   tasks, stats, events, journal, undo, faults, hist, mfile, mresult,
                   hash_map, future_to_file, watch>>

\* a ConfigManager that holds one saved profile
InitProfile ==
    /\ EngineIdle({}, TargetDir)
    /\ profile \in Profiles
    /\ \E v \in OrganizeByValues :
          LET p == ConfigProfile("default", OrganizeBy(v), profile, "t0", "t0")
          IN /\ profiles = [n \in {"default"} |-> p]
             /\ config_files = ConfigFiles(profiles)
    /\ returned = NoReturn
    /\ mfile = NoMatchFile
    /\ mresult = None
    /\ watch = NoWatch

NextProfile ==
    \/ \E n \in ProfileNames : ExportProfile(n, ExportPath)
    \/ \E f \in {ExportPath, ConfigPath("default")}, n \in {"imported_test", ""} :
           ImportProfile(f, n)

SpecProfile == InitProfile /\ [][NextProfile]_vars

(***************************************************************************)
(* The scan of organize_directory under profiles whose rules carry date     *)
(* limits, one of them a string that is no ISO date (the dates of a rule    *)
(* are free text: neither load_profile nor validate_profile parses them).   *)
(***************************************************************************)
Documents == Rule("Documents", {".txt"})

ScanProfiles ==
    { [BaseProfile EXCEPT !.rules = <<Images, [Documents EXCEPT !.date_min = d], Others>>] :
          d \in {"2024-02-01", "01/02/2024"} }

InitScan ==
    /\ \E S \in Trees : EngineIdle(S, TargetDir)
    /\ profile \in ScanProfiles
    /\ profiles = DefaultOnly(profile)
    /\ config_files = ConfigFiles(profiles)
    /\ mfile = NoMatchFile
    /\ mresult = None
    /\ watch = NoWatch

NextScan ==
    \/ StartOrganize
    \/ ScanEntry
    \/ ScanEntryError
    \/ ScanFinish
    \/ \E i \in 1..Len(file_infos) : HashBegin(i)
    \/ \E i \in 1..Len(file_infos) : HashEntry(i)
    \/ HashFinish
    \/ PreviewReturn

SpecScan == InitScan /\ [][NextScan]_vars

(***************************************************************************)
(* The target folder of one image whose size lies at a limit of the size    *)
(* bands, under a rule with or without target_folder and each combination   *)
(* of create_date_folders and create_size_folders, and the creation of that *)
(* folder, which may fail.                                                  *)
(***************************************************************************)
PlanSizes ==
    {1024 * 1024 - 1, 1024 * 1024, 100 * 1024 * 1024 - 1, 100 * 1024 * 1024,
     1024 * 1024 * 1024 - 1, 1024 * 1024 * 1024}

PlanFiles ==
    {File(<<"T">>, "a", ".jpg", "c1", size, mtime) : size \in PlanSizes, mtime \in {15, 25}}

PlanProfiles ==
    { [BaseProfile EXCEPT !.rules = <<rule, Others>>, !.create_date_folders = d,
                          !.create_size_folders = z] :
          rule \in {Images, Pics}, d \in BOOLEAN, z \in BOOLEAN }

InitPlan ==
    /\ \E f \in PlanFiles : EngineIdle({f}, TargetDir)
    /\ profile \in PlanProfiles
    /\ profiles = DefaultOnly(profile)
    /\ config_files = ConfigFiles(profiles)
    /\ mfile = NoMatchFile
    /\ mresult = None
    /\ watch = NoWatch

NextPlan ==
    \/ StartOrganize
    \/ ScanEntry
    \/ ScanFinish
    \/ \E i \in 1..Len(file_infos) : HashBegin(i)
    \/ \E i \in 1..Len(file_infos) : HashEntry(i)
    \/ HashFinish
    \/ PreviewReturn
    \/ ExecuteStart
    \/ ExecuteMkdirError
    \/ \E i \in 1..Len(tasks) : TaskBegin(i)
    \/ \E i \in 1..Len(tasks) : TaskRename(i)
    \/ \E i \in 1..Len(tasks) : TaskMove(i)
    \/ ExecuteFinish

SpecPlan == InitPlan /\ [][NextPlan]_vars

(***************************************************************************)
(* Watch mode: EnhancedCLI._handle_watch polls the tree, and calls          *)
(* organize_directory when a path is new or its st_mtime has changed.  The  *)
(* tree is changed by nothing but the engine, and every prompt of the loop  *)
(* is accepted.                                                             *)
(***************************************************************************)
\* watch_path.rglob('*'), is_file(), stat().st_mtime
CurrentFiles ==
    [p \in {q \in DOMAIN fs : /\ Len(q.dir) >= Len(TargetDir)
                              /\ SubSeq(q.dir, 1, Len(TargetDir)) = TargetDir}
        |-> fs[p].mtime]

\* the paths that are not in last_check or whose st_mtime differs
NewFiles(current_files, last_check) ==
    {p \in DOMAIN current_files :
        p \notin DOMAIN last_check \/ last_check[p] # current_files[p]}

\* one iteration of the loop up to the call of organize_directory, or, when
\* nothing is new, up to the sleep
WatchPoll ==
    /\ watch.pc = "poll"
    /\ watch' = IF NewFiles(CurrentFiles, watch.last_check) # {}
                THEN [watch EXCEPT !.pc = "call", !.current_files = CurrentFiles]
                ELSE [watch EXCEPT !.last_check = CurrentFiles,
                                   !.current_files = CurrentFiles]
    /\ UNCHANGED <<fs, dirs, cwd, profile, phase, run, dry_run, enable_undo,
                   enable_duplicates, cancel_requested, all_files, file_infos,
                   tasks, stats, events, journal, undo, faults, hist, mfile, mresult,
                   hash_map, future_to_file, profiles, config_files, returned>>

\* a loop that never records what it has seen
WatchSleepKeeps ==
    /\ watch.pc = "organizing"
    /\ phase = "done"
    /\ watch' = [watch EXCEPT !.pc = "poll"]
    /\ UNCHANGED <<fs, dirs, cwd, profile, phase, run, dry_run, enable_undo,
                   enable_duplicates, cancel_requested, all_files, file_infos,
                   tasks, stats, events, journal, undo, faults, hist, mfile, mresult,
                   hash_map, future_to_file, profiles, config_files, returned>>

\* organize_directory has returned: last_check = current_files, then the sleep
WatchSleep ==
    /\ watch.pc = "organizing"
    /\ phase = "done"
    /\ watch' = [watch EXCEPT !.pc = "poll", !.last_check = watch.current_files]
    /\ UNCHANGED <<fs, dirs, cwd, profile, phase, run, dry_run, enable_undo,
                   enable_duplicates, cancel_requested, all_files, file_infos,
                   tasks, stats, events, journal, undo, faults, hist, mfile, mresult,
                   hash_map, future_to_file, profiles, config_files, returned>>

InitWatch ==
    /\ \E S \in Trees : EngineIdle(S, OtherDir)
    /\ profile \in Profiles
    /\ profiles = DefaultOnly(profile)
    /\ config_files = ConfigFiles(profiles)
    /\ mfile = NoMatchFile
    /\ mresult = None
    /\ watch = [NoWatch EXCEPT !.pc = "poll"]

NextWatch ==
    \/ WatchPoll
    \/ WatchSleep
    \/ StartOrganize
    \/ ScanEntry
    \/ ScanFinish
    \/ PreviewReturn
    \/ ExecuteStart
    \/ \E i \in 1..Len(tasks) : TaskBegin(i)
    \/ \E i \in 1..Len(tasks) : TaskRename(i)
    \/ \E i \in 1..Len(tasks) : TaskUnlink(i)
    \/ \E i \in 1..Len(tasks) : TaskMove(i)
    \/ ExecuteFinish

\* the loop and the engine keep running: the poll comes round after every
\* sleep, and the pool runs every submitted job
SpecWatch == InitWatch /\ [][NextWatch]_vars /\ WF_vars(NextWatch)

(***************************************************************************)
(* Properties.                                                             *)
(***************************************************************************)
Indices == 1..Len(tasks)
WithOutcome(o) == {i \in Indices : tasks[i].outcome = o}

\* a real run that reached _execute_organization has returned
RealRunDone == phase = "done" /\ ~dry_run /\ tasks # <<>>

\* the predicates of a rule, as the specification words them
Qualifies(rule, f) ==
    /\ rule.enabled
    /\ rule.extensions = {} \/ \E e \in rule.extensions : Lower(e) = Lower(f.suffix)
    /\ rule.size_min = None \/ rule.size_min <= f.size
    /\ rule.size_max = None \/ f.size <= rule.size_max
    /\ rule.date_min = "" \/ FromIso(rule.date_min) <= f.mtime
    /\ rule.date_max = "" \/ f.mtime <= FromIso(rule.date_max)

\* C1: whenever some rule of the list is enabled and has all its predicates
\* hold for the file, get_rule_for_file returns the first such rule in list
\* order, and no later one.
C1_FirstMatchWins ==
    mresult # None =>
        \A i \in 1..Len(profile.rules) :
            (/\ Qualifies(profile.rules[i], mfile)
             /\ \A j \in 1..(i - 1) : ~Qualifies(profile.rules[j], mfile))
            => mresult = i

\* two rules qualify, the first by an upper-case extension and a size equal to
\* its size_max, and the first is returned
C1_Witness ==
    /\ mresult = 1
    /\ Len(profile.rules) = 2
    /\ Qualifies(profile.rules[2], mfile)
    /\ profile.rules[1].extensions = {".JPG"}
    /\ mfile.suffix = ".Jpg"
    /\ profile.rules[1].size_max = mfile.size

\* C2: with the rename policy, two files of one run that are planned to the
\* same destination path and are both moved end under two different names,
\* each name holding the content its file had before the run.
C2_RenameKeepsBoth ==
    (RealRunDone /\ run = 1 /\ profile.handle_duplicates = "rename") =>
        \A i \in WithOutcome("moved"), j \in WithOutcome("moved") :
            (i # j /\ PlannedTarget(file_infos[i]) = PlannedTarget(file_infos[j]))
            => /\ tasks[i].target # tasks[j].target
               /\ Exists(tasks[i].target)
               /\ fs[tasks[i].target].data = hist.before[file_infos[i].path].data

\* C3: after a real run with undo enabled in which nothing failed and nothing
\* was cancelled, started from the target directory, an undo that reports
\* success has restored the tree the run started from and removed the journal.
C3_RoundTrip ==
    (/\ phase = "idle" /\ undo.result = "ok"
     /\ enable_undo /\ ~dry_run /\ tasks # <<>>
     /\ cwd = TargetDir /\ ~cancel_requested
     /\ WithOutcome("failed") = {} /\ hist.scan_errors = 0)
    => fs = hist.before /\ ~journal.written

\* the pairs of the journal, its targets read from the target directory
JournalPairs ==
    {<<journal.operations[k].source,
       Path(TargetDir \o journal.operations[k].target.dir, journal.operations[k].target.name)>> :
         k \in 1..Len(journal.operations)}

\* the pairs of the moves the run performed
MovedPairs == {<<file_infos[i].path, tasks[i].target>> : i \in WithOutcome("moved")}

\* C4: when a real run with undo enabled returns, the journal holds exactly the
\* (source, destination) pairs of the files that were moved, each destination
\* being the path the file was moved to.
C4_JournalIsTheMoves ==
    (RealRunDone /\ enable_undo) => (journal.written /\ JournalPairs = MovedPairs)

\* C5: every step of a preview run leaves the files, the directories and the
\* journal as they are.
C5_PreviewChangesNothing ==
    [][(dry_run /\ phase \in {"scanning", "hashing", "planned", "executing"})
        => (fs' = fs /\ dirs' = dirs /\ journal' = journal)]_vars

\* a preview with undo enabled has planned two files and returned
C5_Witness ==
    /\ phase = "done" /\ dry_run /\ enable_undo
    /\ Len(file_infos) = 2
    /\ fs = hist.before
    /\ ~journal.written

\* the files a real run would move: all but those the skip policy leaves
WouldMove ==
    {i \in 1..Len(file_infos) :
        ~(profile.handle_duplicates = "skip" /\ Exists(PlannedTarget(file_infos[i])))}

\* C6: when a preview run returns, files_moved is the number of files a real
\* run would move.
C6_PreviewCountsMoves ==
    (phase = "done" /\ dry_run) => stats.files_moved = Cardinality(WouldMove)

\* C7: when a real run that was not cancelled returns,
\* total_files = files_moved + files_skipped + errors.
C7_StatsReconcile ==
    (RealRunDone /\ ~cancel_requested) =>
        stats.total_files = stats.files_moved + stats.files_skipped + stats.errors

\* C8: a second real run, right after the first and with the same profile,
\* moves none of the files the first run placed.
C8_SecondRunLeavesPlaced ==
    (run = 2 /\ ~dry_run /\ phase \in {"executing", "done"}) =>
        \A i \in WithOutcome("moved") : file_infos[i].path \notin hist.placed

\* C9: with the skip policy, the step in which a job finds its destination
\* existing changes no file and no directory, leaves the source in place, ends
\* the job as skipped, and adds one to files_skipped and nothing to files_moved
\* or errors.
C9_SkipLeavesFileInPlace ==
    [][\A i \in 1..Len(tasks) :
        (/\ phase = "executing" /\ ~cancel_requested
         /\ profile.handle_duplicates = "skip"
         /\ tasks[i].pc = "queued"
         /\ Exists(PlannedTarget(file_infos[i]))
         /\ tasks'[i].pc # "queued")
        => (/\ fs' = fs /\ dirs' = dirs
            /\ tasks'[i].outcome = "skipped"
            /\ stats'.files_skipped = stats.files_skipped + 1
            /\ stats'.files_moved = stats.files_moved
            /\ stats'.errors = stats.errors)]_vars

\* a run has skipped a file: it is still at its source, and the destination
\* holds the other content it held before
C9_Witness ==
    /\ RealRunDone
    /\ \E i \in WithOutcome("skipped") :
          /\ Exists(file_infos[i].path)
          /\ Exists(tasks[i].target)
          /\ fs[tasks[i].target] = hist.before[tasks[i].target]
          /\ fs[tasks[i].target].data # fs[file_infos[i].path].data
    /\ stats.files_skipped = 1 /\ stats.files_moved = 0 /\ stats.errors = 0

\* the ERROR entries logged for a source path, with their error message
ErrorEvents(p) ==
    {e \in BagToSet(events) : e.action = "ERROR" /\ e.source = p /\ e.error # ""}

\* C10: when a real run that was not cancelled returns, every planned file has
\* ended as moved, skipped or failed, each failed file has exactly one ERROR
\* entry with its message, and errors counts one per failed file on top of the
\* scan errors.
C10_FailureIsolation ==
    (RealRunDone /\ ~cancel_requested) =>
        /\ \A i \in Indices : tasks[i].outcome \in {"moved", "skipped", "failed"}
        /\ \A i \in WithOutcome("failed") :
              /\ Cardinality(ErrorEvents(file_infos[i].path)) = 1
              /\ \A e \in ErrorEvents(file_infos[i].path) : CopiesIn(e, events) = 1
        /\ stats.errors = hist.scan_errors + Cardinality(WithOutcome("failed"))

\* one move failed, and the other file of the run was moved all the same
C10_Witness ==
    /\ RealRunDone /\ ~cancel_requested
    /\ Cardinality(WithOutcome("failed")) = 1
    /\ Cardinality(WithOutcome("moved")) = 1
    /\ stats.errors = 1 /\ stats.files_moved = 1

\* the counter that an outcome adds to
CounterOf(st, outcome) ==
    CASE outcome = "moved" -> st.files_moved
      [] outcome = "skipped" -> st.files_skipped
      [] OTHER -> st.errors

Terminal == {"moved", "skipped", "failed"}

\* C11: in every interleaving of the move jobs, the step in which a planned
\* file reaches its outcome (moved, skipped or failed) adds exactly one to the
\* counter of that outcome and nothing to the other two, an outcome once
\* reached never changes, and when a run that was not cancelled returns every
\* planned file has an outcome and each counter is the number of files with
\* its outcome.
C11_EveryJobCountedOnce ==
    /\ [][\A i \in Indices :
            /\ (phase = "executing" /\ tasks[i].outcome = "pending"
                                    /\ tasks'[i].outcome # "pending")
               => \/ tasks'[i].outcome = "unprocessed" /\ stats' = stats
                  \/ /\ tasks'[i].outcome \in Terminal
                     /\ \A o \in Terminal :
                           CounterOf(stats', o) = CounterOf(stats, o)
                               + (IF o = tasks'[i].outcome THEN 1 ELSE 0)
            /\ (phase = "executing" /\ phase' = "executing"
                                    /\ tasks[i].outcome # "pending")
               => tasks'[i].outcome = tasks[i].outcome]_vars
    /\ []((RealRunDone /\ ~cancel_requested) =>
            /\ \A i \in Indices : tasks[i].outcome \in Terminal
            /\ stats.files_moved = Cardinality(WithOutcome("moved"))
            /\ stats.files_skipped = Cardinality(WithOutcome("skipped"))
            /\ stats.errors = hist.scan_errors + Cardinality(WithOutcome("failed")))

\* two jobs ran interleaved (both saw the same destination free and moved to
\* it) and both moves are counted
C11_Witness ==
    /\ RealRunDone /\ ~cancel_requested
    /\ Len(tasks) = 2
    /\ tasks[1].outcome = "moved" /\ tasks[2].outcome = "moved"
    /\ tasks[1].target = tasks[2].target
    /\ stats.files_moved = 2 /\ stats.files_skipped = 0 /\ stats.errors = 0

\* the name stem_<n>.ext with the smallest n >= 1 that was free before the move
SmallestFree ==
    LET n == CHOOSE n \in 1..(MaxTaken + 1) :
                 /\ RenameCandidate(Destination, "a", n) \notin DOMAIN hist.before
                 /\ \A m \in 1..(n - 1) :
                       RenameCandidate(Destination, "a", m) \in DOMAIN hist.before
    IN RenameCandidate(Destination, "a", n)

\* the incoming file is at path p, and what the folder held is as it was
PlacedAt(p) ==
    /\ p \in DOMAIN fs /\ fs[p].data = Incoming.data
    /\ Incoming.path \notin DOMAIN fs
    /\ \A q \in DOMAIN hist.before \ {Incoming.path} :
          q \in DOMAIN fs /\ fs[q] = hist.before[q]

\* C12: with the rename policy and the planned destination a.jpg existing,
\* each of the three resolvers places the incoming file at a_<n>.jpg for the
\* smallest free n >= 1, leaves every file of the folder as it was, and the
\* file counts as moved.
C12_RenameSmallestFree ==
    Destination \in DOMAIN hist.before =>
        /\ (/\ returned = NoReturn /\ run = 1 /\ phase = "done" /\ tasks # <<>>
             /\ profile.handle_duplicates = "rename")
            => (/\ tasks[1].outcome = "moved" /\ tasks[1].target = SmallestFree
                /\ PlacedAt(SmallestFree) /\ stats.files_moved = 1)
        /\ (/\ returned # NoReturn /\ ~returned.dry_run /\ returned.strategy = "rename"
             /\ run = 0)
            => (/\ returned.success /\ returned.destination = SmallestFree
                /\ PlacedAt(SmallestFree))

\* the scan is about to examine a file for which get_rule_for_file returns None
UnmatchedNext ==
    /\ phase = "scanning" /\ all_files # <<>> /\ ~cancel_requested
    /\ profile.max_file_size = None
    /\ get_rule_for_file(profile.rules, Head(all_files).name.ext,
                         fs[Head(all_files)].size, fs[Head(all_files)].mtime) = 0

\* C13: the scan step that examines a file no rule matches, in a profile
\* without a catch-all, adds one to errors, logs an ERROR entry for the file,
\* and leaves the file where it is.
C13_UnmatchedIsAnError ==
    [][(UnmatchedNext /\ all_files' = Tail(all_files) /\ faults' = faults)
        => (/\ stats'.errors = stats.errors + 1
            /\ \E ev \in BagToSet(events') :
                  ev.action = "ERROR" /\ ev.source = Head(all_files)
            /\ fs' = fs)]_vars

\* a catch-all rule: enabled, no extensions, no size or date bound
CatchAll(rule) ==
    /\ rule.enabled /\ rule.extensions = {}
    /\ rule.size_min = None /\ rule.size_max = None
    /\ rule.date_min = "" /\ rule.date_max = ""

\* C14: when the rule list holds a catch-all rule, get_rule_for_file returns
\* a rule for every file (never None), and one no later than the catch-all.
C14_CatchAllAlwaysMatches ==
    mresult # None =>
        \A i \in 1..Len(profile.rules) :
            CatchAll(profile.rules[i]) => mresult \in 1..i

\* a file no other rule accepts is given to the catch-all, which is not named
\* "Others" and stands second in the list
C14_Witness ==
    /\ mresult = 2
    /\ CatchAll(profile.rules[2]) /\ profile.rules[2].name = "A"
    /\ ~Qualifies(profile.rules[1], mfile)
    /\ mfile.suffix = ".txt"

\* the journal entry the replay loop is about to process has no file at its
\* destination
MissingNext ==
    /\ phase = "undoing" /\ undo.ops # <<>>
    /\ ~Exists(Resolve(Head(undo.ops).target))

\* C15: the replay step that meets an entry whose destination file no longer
\* exists adds one to the replay errors and nothing to the restored count,
\* changes no file, and the replay goes on with the remaining entries.
C15_MissingDestinationIsAnError ==
    [][(MissingNext /\ undo'.ops = Tail(undo.ops))
        => (/\ undo'.error_count = undo.error_count + 1
            /\ undo'.success_count = undo.success_count
            /\ fs' = fs
            /\ phase' = "undoing")]_vars

\* C16: when the replay ends, the journal is deleted if and only if every
\* entry of the journal was restored.
C16_JournalKeptUnlessAllRestored ==
    [][(phase = "undoing" /\ phase' = "idle")
        => (~journal'.written <=> undo.success_count = Len(journal.operations))]_vars

\* the position of x in a sequence without repetitions (0 when absent)
Position(seq, x) ==
    IF \E k \in 1..Len(seq) : seq[k] = x THEN CHOOSE k \in 1..Len(seq) : seq[k] = x ELSE 0

\* C17: of two journal entries whose files were both moved and both restored,
\* the one moved later is restored earlier.
C17_RestoresInReverse ==
    \A a \in 1..Len(hist.restored), b \in 1..Len(hist.restored) :
        LET ma == Position(hist.moves, hist.restored[a])
            mb == Position(hist.moves, hist.restored[b])
        IN (ma # 0 /\ mb # 0 /\ ma < mb) => b < a

\* C18: once cancel_requested is set during a run, no step adds a file to the
\* plan, a job that has not begun ends unprocessed without touching a file or
\* a counter, a job that has begun is never dropped, and when the run returns
\* each counter is the number of jobs that completed with its outcome.
C18_CancelStopsNewWork ==
    /\ [][(cancel_requested /\ phase \in {"scanning", "hashing", "planned", "executing"})
            => /\ file_infos' = file_infos
               /\ stats'.total_files = stats.total_files
               /\ \A i \in Indices :
                     /\ (tasks[i].pc = "queued" /\ tasks'[i].pc # "queued")
                        => (/\ tasks'[i].outcome = "unprocessed"
                            /\ fs' = fs /\ stats' = stats /\ events' = events)
                     /\ tasks[i].pc \notin {"queued", "done"}
                        => tasks'[i].outcome \in Terminal \cup {"pending"}]_vars
    /\ []((phase = "done" /\ tasks # <<>> /\ cancel_requested) =>
            /\ \A i \in Indices : tasks[i].outcome \in Terminal \cup {"unprocessed"}
            /\ stats.files_moved = Cardinality(WithOutcome("moved"))
            /\ stats.files_skipped = Cardinality(WithOutcome("skipped"))
            /\ stats.errors = hist.scan_errors + Cardinality(WithOutcome("failed")))

\* the flag was set while one job was in progress and the other had not
\* begun: the first has moved its file, the second was dropped, one move is
\* counted
C18_Witness ==
    /\ phase = "done" /\ cancel_requested /\ ~dry_run
    /\ Len(tasks) = 2
    /\ \E i \in Indices, j \in Indices :
          /\ tasks[i].outcome = "moved" /\ Exists(tasks[i].target)
          /\ tasks[j].outcome = "unprocessed" /\ Exists(file_infos[j].path)
    /\ stats.files_moved = 1 /\ stats.total_files = 2

\* the sum over the buckets of m of (bucket size - 1)
RECURSIVE BucketSum(_, _)
BucketSum(m, hashes) ==
    IF hashes = {} THEN 0
    ELSE LET h == CHOOSE h \in hashes : TRUE
         IN (Len(m[h]) - 1) + BucketSum(m, hashes \ {h})

\* the files of the plan whose content hash is h
SameContent(h) ==
    {i \in 1..Len(file_infos) : Sha256(fs[file_infos[i].path].data) = h}

\* the files that have been put in a bucket of m
InBuckets(m) == UNION {{m[h][k] : k \in 1..Len(m[h])} : h \in DOMAIN m}

\* C19: all through duplicate detection duplicates_found is the sum over the
\* hash buckets of (bucket size - 1) and each bucket holds files of one
\* content; once every file is hashed, in whatever order the jobs completed,
\* the buckets are the classes of equal content; and no step of the detection
\* changes the plan.
C19_DuplicatesAreBucketSurplus ==
    [][(phase' = "hashing" \/ (phase = "hashing" /\ phase' = "planned"))
        => /\ file_infos' = file_infos
           /\ phase' = "planned" => stats' = stats
           /\ phase' = "hashing" =>
                /\ stats'.duplicates_found = BucketSum(hash_map', DOMAIN hash_map')
                /\ \A h \in DOMAIN hash_map' :
                      \A k \in 1..Len(hash_map'[h]) : hash_map'[h][k] \in SameContent(h)
                /\ (future_to_file' = NoJobs /\ InBuckets(hash_map') = 1..Len(file_infos))
                   => /\ \A h \in DOMAIN hash_map' :
                            {hash_map'[h][k] : k \in 1..Len(hash_map'[h])} = SameContent(h)
                      /\ stats'.duplicates_found =
                            Len(file_infos) - Cardinality(DOMAIN hash_map')]_vars

\* two files of equal content were hashed, the second of the plan first:
\* one duplicate is counted
C19_Witness ==
    /\ phase = "hashing" /\ future_to_file = NoJobs
    /\ Len(file_infos) = 2
    /\ \E h \in DOMAIN hash_map : hash_map[h] = <<2, 1>>
    /\ stats.duplicates_found = 1

\* the rules and the options of two profiles are the same
SameRulesAndOptions(p, q) ==
    \A k \in DOMAIN p \ {"name", "created_date", "last_modified"} : p[k] = q[k]

\* C20: export_profile of a profile the manager holds returns True and leaves
\* a complete JSON text, and an import_profile of the exported file under a
\* new name returns True and registers a profile under that name whose rules
\* and options are those of the exported profile.
C20_ExportImportRoundTrip ==
    /\ (returned.call = "export_profile" /\ returned.name \in DOMAIN profiles)
       => (/\ returned.value
           /\ config_files[returned.path].complete)
    /\ (returned.call = "import_profile" /\ returned.path = ExportPath
                                         /\ returned.name # "")
       => (/\ returned.value
           /\ returned.name \in DOMAIN profiles
           /\ SameRulesAndOptions(profiles[returned.name], profiles["default"]))

\* C21: with duplicate_policy = overwrite, a job that found its destination
\* existing deletes the file there and goes on to the move; the move leaves
\* the content of the source at the destination, the source path gone, and
\* counts the file as moved.
C21_OverwriteReplaces ==
    [][\A i \in DOMAIN tasks :
          (/\ phase = "executing" /\ ~dry_run /\ faults' = faults
           /\ profile.handle_duplicates = "overwrite" /\ i \in DOMAIN tasks')
          => LET src == file_infos[i].path
                 dst == tasks[i].target
             IN /\ (tasks[i].pc = "unlink" /\ tasks'[i].pc # "unlink")
                   => (/\ tasks'[i].pc = "move"
                       /\ dst \notin DOMAIN fs'
                       /\ src \in DOMAIN fs' /\ fs'[src] = fs[src])
                /\ (tasks[i].pc = "move" /\ tasks'[i].pc = "done")
                   => (/\ tasks'[i].outcome = "moved"
                       /\ src \in DOMAIN fs
                       /\ dst \in DOMAIN fs' /\ fs'[dst].data = fs[src].data
                       /\ src \notin DOMAIN fs'
                       /\ stats'.files_moved = stats.files_moved + 1)]_vars

\* the directory names the engine organizes into: the rule names and the
\* segments of the rules' target_folder
OrganizedNames ==
    {profile.rules[r].name : r \in 1..Len(profile.rules)}
    \cup UNION {{profile.rules[r].target_folder[k] :
                    k \in 1..Len(profile.rules[r].target_folder)} :
                r \in 1..Len(profile.rules)}

\* C22: the scan never yields a file that lies under a directory named like a
\* rule or like a rule's target_folder, so files already placed are not
\* scanned again.
C22_ScanSkipsOrganizedFolders ==
    \A i \in 1..Len(file_infos) :
        \A k \in (Len(TargetDir) + 1)..Len(file_infos[i].path.dir) :
            file_infos[i].path.dir[k] \notin OrganizedNames

\* the examination of the scanned entry p fails in the step: its stat raises,
\* or the rule matcher raises on it
ScanFails(p) ==
    \/ faults' # faults
    \/ /\ ~(profile.max_file_size # None /\ profile.max_file_size # 0
             /\ fs[p].size > profile.max_file_size)
       /\ get_rule_for_file_raises(profile.rules, p.name.ext, fs[p].size, fs[p].mtime)

\* C23: when reading or matching a scanned entry fails, one error is reported
\* for that entry, the entry stays out of the result, and the scan goes on
\* with every remaining entry.
C23_ScanErrorIsolation ==
    [][(/\ phase = "scanning" /\ ~cancel_requested
        /\ all_files # <<>> /\ all_files' # all_files)
       => /\ all_files' = Tail(all_files)
          /\ ScanFails(Head(all_files))
             => /\ file_infos' = file_infos
                /\ stats'.errors = stats.errors + 1
                /\ \E e \in BagToSet(events') :
                      /\ e.action = "ERROR" /\ e.source = Head(all_files)
                      /\ events' = events (+) SetToBag({e})]_vars

\* C24: a file whose hash job cannot read it joins no duplicate bucket, is
\* reported as an error (one error event, errors + 1), and stays in the plan.
C24_HashFailureReported ==
    [][\A i \in DOMAIN future_to_file :
          (phase = "hashing" /\ faults' # faults
           /\ i \notin DOMAIN future_to_file')
          =>  /\ hash_map' = hash_map
             /\ stats'.duplicates_found = stats.duplicates_found
             /\ file_infos' = file_infos
             /\ stats'.errors = stats.errors + 1
             /\ \E e \in BagToSet(events') :
                   /\ e.action = "ERROR" /\ e.source = file_infos[i].path
                   /\ events' = events (+) SetToBag({e})]_vars

\* the size segment as the bands are stated: Small below 2^20, Medium from
\* 2^20 to below 100 * 2^20, Large from there to below 2^30, XLarge from 2^30
SizeSegment(size) ==
    CASE size < 2^20 -> "Small"
      [] size >= 2^20 /\ size < 100 * 2^20 -> "Medium"
      [] size >= 100 * 2^20 /\ size < 2^30 -> "Large"
      [] size >= 2^30 -> "XLarge"

\* base/[date]/[size] for a file of the given rule, size and time stamp
RelativeFolder(rule, size, mtime) ==
    (IF rule.target_folder # <<>> THEN rule.target_folder ELSE <<rule.name>>)
    \o (IF profile.create_date_folders THEN <<YearMonth(mtime)>> ELSE <<>>)
    \o (IF profile.create_size_folders THEN <<SizeSegment(size)>> ELSE <<>>)

\* C25: the relative destination of every planned file is
\* base/[date]/[size]/filename, base being the rule's target_folder if set
\* and its name otherwise, the date segment present iff create_date_folders,
\* the size segment present iff create_size_folders and given by the bands;
\* it is a function of the file's size and time stamp, the rule and the profile.
C25_RelativeDestination ==
    \A i \in 1..Len(file_infos) :
        LET info == file_infos[i]
            folder == RelativeFolder(profile.rules[info.rule], fs[info.path].size,
                                     fs[info.path].mtime)
        IN (info.path \in DOMAIN fs)
           => /\ info.target_folder = folder
              /\ PlannedTarget(info) = Path(TargetDir \o folder, info.path.name)

\* a file of exactly 2^20 bytes has been moved to Pics/2024-02/Medium
C25_Witness ==
    /\ phase = "done" /\ run = 1 /\ tasks # <<>> /\ tasks[1].outcome = "moved"
    /\ ~dry_run
    /\ LET p == Path(<<"T", "Pics", "2024-02", "Medium">>, Name("a", ".jpg"))
       IN p \in DOMAIN fs /\ fs[p].size = 2^20

\* the number of logged events with the given action, and with the given source
EventCount(action) ==
    BagCardinality([e \in {x \in BagToSet(events) : x.action = action} |-> events[e]])

EventsAbout(p) ==
    BagCardinality([e \in {x \in BagToSet(events) : x.source = p} |-> events[e]])

\* C26: when organize_directory has returned, the log holds exactly one event
\* for each file that ended moved, skipped or failed, and the numbers of
\* MOVED, SKIPPED and ERROR events are files_moved, files_skipped and errors.
C26_EventsMatchCounters ==
    phase = "done" =>
        /\ \A i \in Indices :
              tasks[i].outcome \in {"moved", "skipped", "failed"}
              => EventsAbout(file_infos[i].path) = 1
        /\ EventCount("MOVED") = stats.files_moved
        /\ EventCount("SKIPPED") = stats.files_skipped
        /\ EventCount("ERROR") = stats.errors

\* C27: once the cancellation flag is set while the hash jobs run, no hash
\* job that has not begun is started; a job that has begun stays with the
\* collector until its result is taken.
C27_CancelStopsHashing ==
    [][(phase = "hashing" /\ cancel_requested)
       => \A i \in DOMAIN future_to_file :
             /\ future_to_file[i] = "queued"
                => (i \in DOMAIN future_to_file' /\ future_to_file'[i] = "queued")
             /\ (future_to_file[i] # "queued" /\ i \in DOMAIN future_to_file')
                => future_to_file'[i] = future_to_file[i]]_vars

\* C28: a replay step whose journal entry names a source path at which a
\* file exists leaves that file as it is.
C28_UndoKeepsExistingSource ==
    [][(phase = "undoing" /\ undo.ops # <<>> /\ undo'.ops = Tail(undo.ops))
       => LET source_path == Resolve(Head(undo.ops).source)
          IN Exists(source_path)
             => (source_path \in DOMAIN fs' /\ fs'[source_path] = fs[source_path])]_vars

Quiet == watch.pc = "poll" /\ NewFiles(CurrentFiles, watch.last_check) = {}

====
